---- MODULE Spec2Model ----
(***************************************************************************)
(* The galaxy generator of 3d-space: src/src/script.js, and the same       *)
(* generator, line for line, in src/unnamed/part_000.                      *)
(*                                                                         *)
(* Numbers.  JavaScript numbers are modelled as exact rationals <<n, d>>   *)
(* in lowest terms with d > 0, so the arithmetic of the generator is the   *)
(* arithmetic of the reals, without the rounding of doubles or of the      *)
(* Float32Array the results are stored in.                                 *)
(*                                                                         *)
(* Angles.  An angle is kept in turns (angle / 2*pi), so Math.PI is half a *)
(* turn, and Math.cos / Math.sin are exact on the multiples of a quarter   *)
(* turn, the only angles with rational sine and cosine that are closed     *)
(* under addition.  The parameter spin is therefore in turns per unit of   *)
(* radius, and the values drawn for radii and angles are chosen so that    *)
(* every angle the generator forms is a multiple of a quarter turn; Cos    *)
(* and Sin are undefined elsewhere and TLC stops if one is ever formed.    *)
(***************************************************************************)
EXTENDS Integers, Sequences, FiniteSets, TLC

\* ------------------------------------------------------------- numbers

RECURSIVE GCD(_, _)
GCD(a, b) == IF b = 0 THEN a ELSE GCD(b, a % b)

AbsInt(n) == IF n < 0 THEN -n ELSE n

\* The rational n/d in lowest terms, d /= 0.
Reduce(n, d, g) == <<n \div g, d \div g>>
Q(n, d) ==
  IF d < 0 THEN Reduce(-n, -d, GCD(AbsInt(n), -d))
           ELSE Reduce(n, d, GCD(AbsInt(n), d))

Zero == <<0, 1>>
One == <<1, 1>>
Half == <<1, 2>>

Plus(a, b) == Q(a[1] * b[2] + b[1] * a[2], a[2] * b[2])
Neg(a) == <<-a[1], a[2]>>
Minus(a, b) == Plus(a, Neg(b))
Times(a, b) == Q(a[1] * b[1], a[2] * b[2])
\* a / b, b /= 0
Over(a, b) == Q(a[1] * b[2], a[2] * b[1])
Less(a, b) == a[1] * b[2] < b[1] * a[2]
LessEq(a, b) == a[1] * b[2] <= b[1] * a[2]
Abs(a) == <<AbsInt(a[1]), a[2]>>
Square(a) == Times(a, a)

\* Math.pow(a, k) for an integer exponent k >= 0
RECURSIVE Pow(_, _)
Pow(a, k) == IF k = 0 THEN One ELSE Times(a, Pow(a, k - 1))

\* Math.PI, in turns
Pi == Half

\* The number of quarter turns, 0..3, in an angle of t turns; defined only
\* when t is a multiple of a quarter turn.
Quarter(t) == CASE (4 * t[1]) % t[2] = 0 -> ((4 * t[1]) \div t[2]) % 4

QuarterCos(q) == CASE q = 0 -> One [] q = 1 -> Zero [] q = 2 -> Neg(One) [] q = 3 -> Zero
QuarterSin(q) == CASE q = 0 -> Zero [] q = 1 -> One [] q = 2 -> Zero [] q = 3 -> Neg(One)

\* Math.cos and Math.sin of an angle of t turns
Cos(t) == QuarterCos(Quarter(t))
Sin(t) == QuarterSin(Quarter(t))

\* -------------------------------------------------------------- colours

\* new THREE.Color("#rrggbb"): a colour string is kept as its three bytes,
\* and each component is byte / 255.
Color(hex) == <<Q(hex[1], 255), Q(hex[2], 255), Q(hex[3], 255)>>

\* Color.lerp(other, t), on a clone of c
Lerp(c, other, t) ==
  [k \in 1..3 |-> Plus(c[k], Times(Minus(other[k], c[k]), t))]

\* Color.multiplyScalar(s)
MultiplyScalar(c, s) == [k \in 1..3 |-> Times(c[k], s)]

\* ------------------------------------------- the body of the particle loop
\* p is the parameters object, i the loop index, l the locals of the
\* iteration (radius, branchAngle, spinAngle, x, y, z), and each u a value
\* returned by one call of Math.random(), in [0, 1).

\* "Position" and "Apply spiral shape": the shape parameter is not read.
\* (definitions take their intermediate values as parameters rather than in
\* LET, which TLC would evaluate again at every use)

\* ((i % parameters.branches) / parameters.branches) * Math.PI * 2
BranchAngle(p, i) == Times(Times(Q(i % p.branches, p.branches), Pi), Q(2, 1))

\* An angle of spin that leaves the radius out.
SpinOnly(p, radius) == p.spin

\* radius * parameters.spin
SpinAngle(p, radius) == Times(radius, p.spin)

\* let x = Math.cos(branchAngle + spinAngle) * radius; let y = 0;
\* let z = Math.sin(branchAngle + spinAngle) * radius
SpiralPoint(radius, branchAngle, spinAngle) ==
  [radius |-> radius,
   branchAngle |-> branchAngle,
   spinAngle |-> spinAngle,
   x |-> Times(Cos(Plus(branchAngle, spinAngle)), radius),
   y |-> Zero,
   z |-> Times(Sin(Plus(branchAngle, spinAngle)), radius)]

PlaceAt(p, i, radius) == SpiralPoint(radius, BranchAngle(p, i), SpinAngle(p, radius))

BasePlacement(p, i, uRadius) == PlaceAt(p, i, Times(uRadius, p.radius))

\* "Apply arm width"
ArmWidth(p, l) == Times(p.armWidth, Minus(One, Over(l.radius, p.radius)))

Jitter(l, armWidth, uX, uZ) ==
  [l EXCEPT !.x = Plus(@, Times(Minus(uX, Half), armWidth)),
            !.z = Plus(@, Times(Minus(uZ, Half), armWidth))]

ApplyArmWidth(p, l, uX, uZ) == Jitter(l, ArmWidth(p, l), uX, uZ)

\* parameters.bulge && Math.random() < 0.1
BulgeChance == <<1, 10>>
BulgeFires(p, uTest) == p.bulge /\ Less(uTest, BulgeChance)

\* A bulge radius of up to a quarter of the radius.
WideBulgeRadius(p, uRadius) == Times(Times(uRadius, p.radius), Q(25, 100))

\* Math.random() * parameters.radius * 0.2
BulgeRadius(p, uRadius) == Times(Times(uRadius, p.radius), Q(2, 10))

\* Math.random() * Math.PI * 2
RandomAngle(u) == Times(Times(u, Pi), Q(2, 1))

\* the x, y, z assigned in the bulge block
BulgePoint(bulgeRadius, bulgeAngle, uY) ==
  [x |-> Times(Cos(bulgeAngle), bulgeRadius),
   y |-> Times(Times(Minus(uY, Half), bulgeRadius), Half),
   z |-> Times(Sin(bulgeAngle), bulgeRadius)]

BulgePosition(p, uRadius, uAngle, uY) ==
  BulgePoint(BulgeRadius(p, uRadius), RandomAngle(uAngle), uY)

\* A relocation that leaves y as it was.
MoveInPlane(l, pos) == [l EXCEPT !.x = pos.x, !.z = pos.z]

MoveTo(l, pos) == [l EXCEPT !.x = pos.x, !.y = pos.y, !.z = pos.z]

\* "Apply bulge"
ApplyBulge(p, l, uTest, uRadius, uAngle, uY) ==
  IF BulgeFires(p, uTest)
    THEN MoveTo(l, BulgePosition(p, uRadius, uAngle, uY))
    ELSE l

\* parameters.halo && Math.random() < 0.05
HaloChance == <<5, 100>>
HaloFires(p, uTest) == p.halo /\ Less(uTest, HaloChance)

\* Math.random() * parameters.radius * 1.5
HaloRadius(p, uRadius) == Times(Times(uRadius, p.radius), Q(15, 10))

\* the x, y, z assigned in the halo block
HaloPoint(haloRadius, haloAngle1, haloAngle2) ==
  [x |-> Times(Times(Sin(haloAngle1), Cos(haloAngle2)), haloRadius),
   y |-> Times(Times(Sin(haloAngle1), Sin(haloAngle2)), haloRadius),
   z |-> Times(Cos(haloAngle1), haloRadius)]

HaloPosition(p, uRadius, uAngle1, uAngle2) ==
  HaloPoint(HaloRadius(p, uRadius), RandomAngle(uAngle1), RandomAngle(uAngle2))

\* "Apply halo"
ApplyHalo(p, l, uTest, uRadius, uAngle1, uAngle2) ==
  IF HaloFires(p, uTest)
    THEN MoveTo(l, HaloPosition(p, uRadius, uAngle1, uAngle2))
    ELSE l

\* An offset scaled by parameters.radius instead of the iteration's radius.
OffsetOfGalaxyRadius(p, l, uPow, uSign) ==
  Times(Times(Times(Pow(uPow, p.randomnessPower),
                    IF Less(uSign, Half) THEN One ELSE Neg(One)),
              p.randomness),
        p.radius)

\* Math.pow(Math.random(), parameters.randomnessPower)
\*   * (Math.random() < 0.5 ? 1 : -1) * parameters.randomness * radius
RandomOffset(p, l, uPow, uSign) ==
  Times(Times(Times(Pow(uPow, p.randomnessPower),
                    IF Less(uSign, Half) THEN One ELSE Neg(One)),
              p.randomness),
        l.radius)

\* "Apply randomness": x += randomX; y += randomY; z += randomZ
ApplyRandomness(p, l, randomX, randomY, randomZ) ==
  [l EXCEPT !.x = Plus(@, randomX),
            !.y = Plus(@, randomY),
            !.z = Plus(@, randomZ)]

\* "Color": colorInside.clone().lerp(colorOutside, radius / parameters.radius)
MixColor(p, l) ==
  Lerp(Color(p.insideColor), Color(p.outsideColor), Over(l.radius, p.radius))

\* A dust lane taken from the branch angle itself.
DustLaneOfArm(p, l) == Plus(Times(Sin(l.branchAngle), Half), Half)

\* Math.sin(branchAngle * parameters.branches) * 0.5 + 0.5
DustLane(p, l) ==
  Plus(Times(Sin(Times(l.branchAngle, Q(p.branches, 1))), Half), Half)

\* Dust lanes that brighten.
Brighten(p, l, mixedColor) ==
  IF p.dustLanes
    THEN MultiplyScalar(mixedColor, Plus(One, Times(DustLane(p, l), Q(3, 10))))
    ELSE mixedColor

\* "Apply dust lanes"
ApplyDustLanes(p, l, mixedColor) ==
  IF p.dustLanes
    THEN MultiplyScalar(mixedColor, Minus(One, Times(DustLane(p, l), Q(3, 10))))
    ELSE mixedColor

\* One iteration of the loop on the draws d, a record with one value per
\* call site of Math.random(): what it stores at i3 .. i3 + 2 of each buffer.
Randomize(p, l, d) ==
  ApplyRandomness(p, l, RandomOffset(p, l, d.powX, d.signX),
                        RandomOffset(p, l, d.powY, d.signY),
                        RandomOffset(p, l, d.powZ, d.signZ))

\* what the iteration stores: positions[i3 ..] = x, y, z and
\* colors[i3 ..] = mixedColor.r, .g, .b
Emit(p, l) ==
  [position |-> <<l.x, l.y, l.z>>,
   color |-> ApplyDustLanes(p, l, MixColor(p, l))]

Particle(p, i, d) ==
  Emit(p,
    Randomize(p,
      ApplyHalo(p,
        ApplyBulge(p,
          ApplyArmWidth(p, BasePlacement(p, i, d.radius), d.armX, d.armZ),
          d.bulgeTest, d.bulgeRadius, d.bulgeAngle, d.bulgeY),
        d.haloTest, d.haloRadius, d.haloAngle1, d.haloAngle2),
      d))

\* ------------------------------------------------------------ the program

VARIABLES
  parameters,      \* the parameters object
  scene,           \* scene.children, as object ids
  galaxyGeometry,  \* the three module variables, an object id or Null
  galaxyMaterial,
  galaxyPoints,
  heap,            \* the reachable objects, by id
  disposed,        \* the ids of the objects dispose() was called on
  nextId,          \* the last object id handed out
  generated,       \* history: the ids each call of generateGalaxy created
  generatedFrom,   \* history: the parameters the latest call read
  outputs,         \* history: what each call read, drew and left in its buffers
  pending,         \* the control whose change is not yet finished, or NoControl
  iter,            \* one iteration of the particle loop, taken stage by stage
  markerMesh,      \* the module variable: the id of the marker group, or Null
  cameraPosition,  \* camera.position
  animations,      \* the animateCamera callbacks requestAnimationFrame holds
  now,             \* the time of the latest animation frame, in ms
  timeouts,        \* the redirects setTimeout holds
  location,        \* the page window.location.href names
  warnings,        \* the number of calls of console.warn
  fontLoads,       \* the font loads whose callback has not run
  marks,           \* history: the number of calls of markYouAreHere
  transitions      \* history: the number of calls of transitionToSolarSystem

vars ==
  <<parameters, scene, galaxyGeometry, galaxyMaterial, galaxyPoints, heap,
    disposed, nextId, generated, generatedFrom, outputs, pending, iter,
    markerMesh, cameraPosition, animations, now, timeouts, location, warnings,
    fontLoads, marks, transitions>>

\* The state of the marker, the camera and the browser.
Navigation ==
  <<markerMesh, cameraPosition, animations, now, timeouts, location, warnings,
    fontLoads, marks, transitions>>

\* Bounds of the model.
MaxCount == 2      \* the largest particle count
MaxCalls == 3      \* calls of generateGalaxy in one run
MaxIndex == 2      \* the largest loop index an iteration is taken at

Null == 0
Camera == 1
NoControl == "none"

\* The pages window.location.href can name.
Galaxy == "galaxy"
SolarSystem == "solar-system"

\* let markerMesh; camera.position.set(0, 2, 6); nothing scheduled, on the
\* page of the galaxy.
InitNavigation ==
  /\ markerMesh = Null
  /\ cameraPosition = <<Zero, Q(2, 1), Q(6, 1)>>
  /\ animations = <<>>
  /\ now = 0
  /\ timeouts = 0
  /\ location = Galaxy
  /\ warnings = 0
  /\ fontLoads = 0
  /\ marks = 0
  /\ transitions = 0

\* The locals of an iteration before it has run.
NoLocals ==
  [radius |-> Zero, branchAngle |-> Zero, spinAngle |-> Zero,
   x |-> Zero, y |-> Zero, z |-> Zero]
Nowhere == [x |-> Zero, y |-> Zero, z |-> Zero]
NoColor == <<Zero, Zero, Zero>>

\* iter: the stage the iteration has reached, its index i and locals l, and
\* what it did on the way: whether each block ran and the point it assigned,
\* the point carried into "Apply randomness", the three offsets, the colour
\* before "Apply dust lanes", and what was stored in the buffers.
NotStarted ==
  [stage |-> "none", i |-> 0, uRadius |-> Zero, l |-> NoLocals,
   bulgeFired |-> FALSE, bulgePoint |-> Nowhere,
   haloFired |-> FALSE, haloPoint |-> Nowhere,
   carried |-> Nowhere, randomX |-> Zero, randomY |-> Zero, randomZ |-> Zero,
   lerped |-> NoColor, stored |-> [position |-> NoColor, color |-> NoColor]]

\* const parameters = { ... }, with count scaled down to the model's bound
\* and spin the representable value nearest to 1.2 rad (a quarter turn).
Defaults ==
  [count |-> MaxCount,
   size |-> <<1, 200>>,
   radius |-> <<8, 1>>,
   branches |-> 4,
   spin |-> <<1, 4>>,
   randomness |-> <<1, 10>>,
   randomnessPower |-> 3,
   insideColor |-> <<255, 171, 145>>,
   outsideColor |-> <<60, 112, 164>>,
   shape |-> "spiral",
   armWidth |-> <<3, 10>>,
   coreSize |-> <<7, 10>>,
   dustLanes |-> TRUE,
   centralBlackHole |-> TRUE,
   bulge |-> TRUE,
   halo |-> TRUE]

\* The values Math.random() returns in the loop of a whole generation: the
\* same value u at every call site of one iteration.
SameDraw(u) ==
  [radius |-> u, armX |-> u, armZ |-> u,
   bulgeTest |-> u, bulgeRadius |-> u, bulgeAngle |-> u, bulgeY |-> u,
   haloTest |-> u, haloRadius |-> u, haloAngle1 |-> u, haloAngle2 |-> u,
   powX |-> u, signX |-> u, powY |-> u, signY |-> u, powZ |-> u, signZ |-> u]

LoopDraws == {SameDraw(u) : u \in {Zero, <<3, 4>>}}

\* new Float32Array(n): n zeros.  writes counts the stores into each element.
Float32Array(n) ==
  [type |-> "Float32Array",
   data |-> [k \in 1..n |-> Zero],
   writes |-> [k \in 1..n |-> 0]]

\* array[index] = v: a store outside the array is ignored
Store(array, index, v) ==
  IF index < Len(array.data)
    THEN [array EXCEPT !.data[index + 1] = v, !.writes[index + 1] = @ + 1]
    ELSE array

\* positions[i3] = x; positions[i3 + 1] = y; positions[i3 + 2] = z, and the
\* same for colors
StoreTriple(array, i3, t) ==
  Store(Store(Store(array, i3, t[1]), i3 + 1, t[2]), i3 + 2, t[3])

\* Stores at a cursor that is not set back to 0 between calls.
StoreAtCursor(buffers, i, particle) ==
  [positions |-> StoreTriple(buffers.positions, (i + Len(generated)) * 3,
                             particle.position),
   colors |-> StoreTriple(buffers.colors, (i + Len(generated)) * 3, particle.color)]

\* const i3 = i * 3, and the six stores of one iteration
StoreParticle(buffers, i, particle) ==
  [positions |-> StoreTriple(buffers.positions, i * 3, particle.position),
   colors |-> StoreTriple(buffers.colors, i * 3, particle.color)]

\* A loop that stops one iteration early.
LoopStopsEarly(p, i) == i + 1 < p.count

\* for (let i = 0; i < parameters.count; i++) { ... }
LoopContinues(p, i) == i < p.count

RECURSIVE ParticleLoop(_, _, _, _)
ParticleLoop(p, draws, i, buffers) ==
  IF LoopContinues(p, i)
    THEN ParticleLoop(p, draws, i + 1,
                      StoreParticle(buffers, i, Particle(p, i, draws[i])))
    ELSE buffers

\* new Float32Array(parameters.count * 3), twice
NewBuffers(p) ==
  [positions |-> Float32Array(p.count * 3), colors |-> Float32Array(p.count * 3)]

\* "Dispose of previous galaxy": the ids dispose() is called on
DisposePrevious(points, geometry, material) ==
  IF points # Null THEN {geometry, material} ELSE {}

\* A call that leaves the previous points object in the scene.
KeepPrevious(children, points) == children

\* "Dispose of previous galaxy": scene.remove(galaxyPoints)
RemovePrevious(children, points) ==
  IF points # Null THEN children \ {points} ELSE children

\* new THREE.SphereGeometry(parameters.coreSize * 0.05, 32, 32)
BlackHoleRadius(p) == Times(p.coreSize, Q(5, 100))

\* "Add central black hole": the objects created, from id first on; none when
\* parameters.centralBlackHole is false
BlackHoleObjects(p, first) ==
  IF p.centralBlackHole
    THEN (first :> [type |-> "SphereGeometry", radius |-> BlackHoleRadius(p)])
      @@ (first + 1 :> [type |-> "MeshBasicMaterial", color |-> <<0, 0, 0>>])
      @@ (first + 2 :> [type |-> "Mesh", geometry |-> first, material |-> first + 1,
                         position |-> <<Zero, Zero, Zero>>])
    ELSE <<>>

\* A black hole that is created and never added.
NoParent(p, first) == {}

\* galaxyPoints.add(blackHole): the children of the new points object
BlackHoleParent(p, first) == IF p.centralBlackHole THEN {first + 2} ELSE {}

\* The objects of the previous galaxy, which nothing refers to after the call.
Unreachable(h, points) ==
  IF points # Null
    THEN {points, h[points].geometry, h[points].material,
          h[h[points].geometry].position, h[h[points].geometry].color}
         \cup h[points].children
         \cup {h[c].geometry : c \in h[points].children}
         \cup {h[c].material : c \in h[points].children}
    ELSE {}

\* The objects one call creates, with first the id of the first of them:
\* the two arrays, the geometry with its two attributes, the material, the
\* points object and the black hole.
NewObjects(p, buffers, first) ==
  (first :> buffers.positions)
    @@ (first + 1 :> buffers.colors)
    @@ (first + 2 :> [type |-> "BufferGeometry",
                      position |-> first, color |-> first + 1])
    @@ (first + 3 :> [type |-> "PointsMaterial", size |-> p.size])
    @@ (first + 4 :> [type |-> "Points", geometry |-> first + 2,
                      material |-> first + 3,
                      children |-> BlackHoleParent(p, first + 5)])
    @@ BlackHoleObjects(p, first + 5)

\* The ids of the objects a call created, for the history.
Created(p, first) ==
  [positions |-> first, colors |-> first + 1, geometry |-> first + 2,
   material |-> first + 3, points |-> first + 4,
   blackHole |-> BlackHoleParent(p, first + 5)]

\* The heap without the objects in gone.
Without(h, gone) == [id \in DOMAIN h \ gone |-> h[id]]

\* A call that writes a clamped arm width back.
ClampedBack(p) == [p EXCEPT !.armWidth = Zero]

\* The parameters object after a call that read it as p: generateGalaxy
\* assigns to none of its fields.
Untouched(p) == p

\* generateGalaxy(), reading the parameters p, with the buffers the loop fills.
Regenerate(p, buffers, objects) ==
  /\ parameters' = Untouched(p)
  /\ disposed' = disposed \cup DisposePrevious(galaxyPoints, galaxyGeometry, galaxyMaterial)
  /\ scene' = RemovePrevious(scene, galaxyPoints) \cup {nextId + 5}
  /\ galaxyGeometry' = nextId + 3
  /\ galaxyMaterial' = nextId + 4
  /\ galaxyPoints' = nextId + 5
  /\ heap' = Without(heap, Unreachable(heap, galaxyPoints)) @@ objects
  /\ nextId' = nextId + Cardinality(DOMAIN objects)
  /\ generated' = Append(generated, Created(p, nextId + 1))
  /\ generatedFrom' = p

\* What a call read, drew and left in the two arrays, for the history.
Output(p, draws, buffers) ==
  [parameters |-> p, draws |-> draws,
   positions |-> buffers.positions.data, colors |-> buffers.colors.data]

\* generateGalaxy(), reading the parameters p, with draws[i] the values of
\* Math.random() in iteration i.
GenerateGalaxy(p, draws) ==
  \E buffers \in {ParticleLoop(p, draws, 0, NewBuffers(p))} :
    /\ Regenerate(p, buffers, NewObjects(p, buffers, nextId + 1))
    /\ outputs' = Append(outputs, Output(p, draws, buffers))

\* The draws of a whole loop: any draws in each iteration, or, where only the
\* objects a call creates matter, the same draws in every iteration.
Draws(p) == [0 .. p.count - 1 -> LoopDraws]
EvenDraws(p) == {[i \in 0 .. p.count - 1 |-> d] : d \in LoopDraws}

\* The state after construction, before "Initial galaxy generation".
Init ==
  /\ parameters = Defaults
  /\ scene = {Camera}
  /\ galaxyGeometry = Null
  /\ galaxyMaterial = Null
  /\ galaxyPoints = Null
  /\ heap = (Camera :> [type |-> "PerspectiveCamera"])
  /\ disposed = {}
  /\ nextId = Camera
  /\ generated = <<>>
  /\ generatedFrom = Defaults
  /\ outputs = <<>>
  /\ pending = NoControl
  /\ iter = NotStarted
  /\ InitNavigation

\* "Initial galaxy generation": generateGalaxy() at the end of the script
InitialGeneration ==
  /\ generated = <<>>
  /\ \E draws \in EvenDraws(parameters) : GenerateGalaxy(parameters, draws)
  /\ UNCHANGED <<pending, iter>>
  /\ UNCHANGED Navigation

\* The controls of the GUI whose onFinishChange is generateGalaxy, and the
\* values the model lets each take.
Values ==
  [count |-> {1, MaxCount},
   size |-> {<<1, 200>>, <<1, 100>>},
   radius |-> {<<8, 1>>, <<4, 1>>},
   branches |-> {4, 2},
   spin |-> {<<1, 4>>, <<-1, 4>>},
   randomness |-> {<<1, 10>>, Zero},
   randomnessPower |-> {3, 1},
   insideColor |-> {<<255, 171, 145>>, <<255, 0, 0>>},
   outsideColor |-> {<<60, 112, 164>>, <<0, 0, 255>>},
   armWidth |-> {<<3, 10>>, Zero},
   coreSize |-> {<<7, 10>>, Half}]

Checkboxes == {"dustLanes", "centralBlackHole", "bulge", "halo"}

\* Handlers with none set on the coreSize control.
UnlessCoreSize(control, p, draws) ==
  IF control = "coreSize"
    THEN UNCHANGED <<parameters, scene, galaxyGeometry, galaxyMaterial,
                     galaxyPoints, heap,
                     disposed, nextId, generated, generatedFrom, outputs>>
    ELSE GenerateGalaxy(p, draws)

\* The handler a control's onFinishChange is set to: all are generateGalaxy.
OnFinishChange(control, p, draws) == GenerateGalaxy(p, draws)

\* The user moves a slider, types in a box or picks a colour: dat.gui stores
\* the value in parameters and calls onChange, which these controls leave unset.
Change ==
  /\ generated # <<>>
  /\ Len(generated) < MaxCalls
  /\ \E control \in DOMAIN Values : \E v \in Values[control] :
       /\ pending \in {NoControl, control}
       /\ parameters' = [parameters EXCEPT ![control] = v]
       /\ pending' = control
  /\ UNCHANGED <<scene, galaxyGeometry, galaxyMaterial, galaxyPoints, heap,
                 disposed, nextId, generated, generatedFrom, outputs, iter>>
  /\ UNCHANGED Navigation

\* The user releases the slider or leaves the box: dat.gui calls onFinishChange.
FinishChange ==
  /\ pending # NoControl
  /\ \E draws \in EvenDraws(parameters) : OnFinishChange(pending, parameters, draws)
  /\ pending' = NoControl
  /\ UNCHANGED iter
  /\ UNCHANGED Navigation

\* The user clicks a checkbox: dat.gui stores the flipped value and calls
\* onChange and onFinishChange at once.
Toggle ==
  /\ generated # <<>>
  /\ Len(generated) < MaxCalls
  /\ pending = NoControl
  /\ \E control \in Checkboxes :
       LET p == [parameters EXCEPT ![control] = ~@]
       IN  /\ parameters' = p
           /\ \E draws \in EvenDraws(p) : OnFinishChange(control, p, draws)
  /\ UNCHANGED <<pending, iter>>
  /\ UNCHANGED Navigation

Next == InitialGeneration \/ Change \/ FinishChange \/ Toggle

Spec == Init /\ [][Next]_vars

\* ----------------------------------------- the generator on any parameters

\* Parameters for calls of generateGalaxy as a function of the parameters
\* object, count 0 included (the GUI keeps count at 1000 or more).
GenParameters ==
  {[Defaults EXCEPT !.count = c, !.centralBlackHole = bh,
                    !.bulge = on, !.halo = on, !.dustLanes = on] :
     c \in 0..MaxCount, bh \in BOOLEAN, on \in BOOLEAN}

InitGen ==
  /\ parameters \in GenParameters
  /\ scene = {Camera}
  /\ galaxyGeometry = Null
  /\ galaxyMaterial = Null
  /\ galaxyPoints = Null
  /\ heap = (Camera :> [type |-> "PerspectiveCamera"])
  /\ disposed = {}
  /\ nextId = Camera
  /\ generated = <<>>
  /\ generatedFrom = parameters
  /\ outputs = <<>>
  /\ pending = NoControl
  /\ iter = NotStarted
  /\ InitNavigation

\* One call of generateGalaxy().
Call ==
  /\ Len(generated) < MaxCalls
  /\ \E draws \in Draws(parameters) : GenerateGalaxy(parameters, draws)
  /\ UNCHANGED <<pending, iter>>
  /\ UNCHANGED Navigation

SpecGen == InitGen /\ [][Call]_vars

\* --------------------------------- one iteration of the loop, stage by stage

\* The values Math.random() returns at each call site of the iteration.
RadiusDraws == {<<1, 4>>, <<3, 4>>}
JitterDraws == {Zero, <<3, 4>>}
TestDraws == {Zero, <<3, 40>>, Half}
ScaleDraws == {Half, <<39, 40>>}
AngleDraws == {Zero, <<1, 4>>}
PowDraws == {Zero, <<39, 40>>}
SignDraws == {Zero, Half}

\* The parameters with no arm width, bulge, halo or randomness.
Plain ==
  [Defaults EXCEPT !.armWidth = Zero, !.bulge = FALSE, !.halo = FALSE,
                   !.randomness = Zero]

\* The parameters an iteration is taken on: every combination of the arm
\* width, bulge, halo, randomness and dust lanes being on or off, the plain
\* parameters under every shape, branch count and spin, and under every
\* randomness and randomness power.
ParticleParameters ==
  {[Defaults EXCEPT !.armWidth = a, !.bulge = bu, !.halo = h,
                    !.randomness = r, !.dustLanes = dl] :
     a \in {Zero, <<3, 10>>}, bu \in BOOLEAN, h \in BOOLEAN,
     r \in {Zero, <<1, 10>>}, dl \in BOOLEAN}
  \cup
  {[Plain EXCEPT !.shape = sh, !.branches = b, !.spin = sp] :
     sh \in {"spiral", "elliptical"}, b \in {2, 4},
     sp \in {Zero, <<1, 4>>, <<-1, 4>>}}
  \cup
  {[Plain EXCEPT !.randomness = r, !.randomnessPower = k] :
     r \in {<<1, 10>>, <<2, 1>>}, k \in {1, 2, 3}}

InitParticle ==
  /\ parameters \in ParticleParameters
  /\ scene = {Camera}
  /\ galaxyGeometry = Null
  /\ galaxyMaterial = Null
  /\ galaxyPoints = Null
  /\ heap = (Camera :> [type |-> "PerspectiveCamera"])
  /\ disposed = {}
  /\ nextId = Camera
  /\ generated = <<>>
  /\ generatedFrom = parameters
  /\ outputs = <<>>
  /\ pending = NoControl
  /\ \E i \in 0..(MaxIndex - 1) : iter = [NotStarted EXCEPT !.stage = "start", !.i = i]
  /\ InitNavigation

Program == <<parameters, scene, galaxyGeometry, galaxyMaterial, galaxyPoints,
             heap, disposed, nextId, generated, generatedFrom, outputs, pending,
             markerMesh, cameraPosition, animations, now, timeouts, location,
             warnings, fontLoads, marks, transitions>>

\* "Position", "Apply spiral shape"
Place ==
  /\ iter.stage = "start"
  /\ \E u \in RadiusDraws :
       iter' = [iter EXCEPT !.stage = "placed", !.uRadius = u,
                            !.l = BasePlacement(parameters, iter.i, u)]
  /\ UNCHANGED Program

\* "Apply arm width"
ArmWidthStep ==
  /\ iter.stage = "placed"
  /\ \E uX \in JitterDraws, uZ \in JitterDraws :
       iter' = [iter EXCEPT !.stage = "jittered",
                            !.l = ApplyArmWidth(parameters, iter.l, uX, uZ)]
  /\ UNCHANGED Program

\* "Apply bulge"
BulgeStep ==
  /\ iter.stage = "jittered"
  /\ \E uTest \in TestDraws, uRadius \in ScaleDraws, uAngle \in AngleDraws, uY \in JitterDraws :
       iter' = [iter EXCEPT
         !.stage = "bulged",
         !.l = ApplyBulge(parameters, iter.l, uTest, uRadius, uAngle, uY),
         !.bulgeFired = BulgeFires(parameters, uTest),
         !.bulgePoint = IF BulgeFires(parameters, uTest)
                          THEN BulgePosition(parameters, uRadius, uAngle, uY)
                          ELSE Nowhere]
  /\ UNCHANGED Program

\* "Apply halo"
HaloStep ==
  /\ iter.stage = "bulged"
  /\ \E uTest \in TestDraws, uRadius \in ScaleDraws, uAngle1 \in AngleDraws, uAngle2 \in AngleDraws :
       iter' = [iter EXCEPT
         !.stage = "haloed",
         !.l = ApplyHalo(parameters, iter.l, uTest, uRadius, uAngle1, uAngle2),
         !.haloFired = HaloFires(parameters, uTest),
         !.haloPoint = IF HaloFires(parameters, uTest)
                         THEN HaloPosition(parameters, uRadius, uAngle1, uAngle2)
                         ELSE Nowhere]
  /\ UNCHANGED Program

\* const randomX = ...; the points the two blocks assigned are forgotten here
RandomXStep ==
  /\ iter.stage = "haloed"
  /\ \E uPow \in PowDraws, uSign \in SignDraws :
       iter' = [iter EXCEPT
         !.stage = "randomX",
         !.carried = [x |-> iter.l.x, y |-> iter.l.y, z |-> iter.l.z],
         !.bulgePoint = Nowhere,
         !.haloPoint = Nowhere,
         !.randomX = RandomOffset(parameters, iter.l, uPow, uSign)]
  /\ UNCHANGED Program

\* const randomY = ...
RandomYStep ==
  /\ iter.stage = "randomX"
  /\ \E uPow \in PowDraws, uSign \in SignDraws :
       iter' = [iter EXCEPT
         !.stage = "randomY",
         !.randomY = RandomOffset(parameters, iter.l, uPow, uSign)]
  /\ UNCHANGED Program

\* const randomZ = ...
RandomZStep ==
  /\ iter.stage = "randomY"
  /\ \E uPow \in PowDraws, uSign \in SignDraws :
       iter' = [iter EXCEPT
         !.stage = "randomZ",
         !.randomZ = RandomOffset(parameters, iter.l, uPow, uSign)]
  /\ UNCHANGED Program

\* x += randomX; y += randomY; z += randomZ, then "Color", "Apply dust
\* lanes" and the stores into the two buffers
StoreStep ==
  /\ iter.stage = "randomZ"
  /\ \E l \in {ApplyRandomness(parameters, iter.l,
                               iter.randomX, iter.randomY, iter.randomZ)} :
       iter' = [iter EXCEPT !.stage = "stored",
                            !.l = l,
                            !.lerped = MixColor(parameters, l),
                            !.stored = Emit(parameters, l)]
  /\ UNCHANGED Program

NextParticle ==
  \/ Place \/ ArmWidthStep \/ BulgeStep \/ HaloStep
  \/ RandomXStep \/ RandomYStep \/ RandomZStep \/ StoreStep

SpecParticle == InitParticle /\ [][NextParticle]_vars

\* ------------------------------------------------ the marker and the camera

MaxMarks == 2         \* calls of markYouAreHere in one run
MaxTransitions == 2   \* calls of transitionToSolarSystem in one run
Duration == 3000      \* const duration = 3000

\* The time from one animation frame to the next, in ms.
FrameIntervals == {1500, 3000}

Origin == <<Zero, Zero, Zero>>

\* The objects markYouAreHere creates, from id first on: the group with its
\* sphere, two rings and stars.  The pulsate and animateRings loops only turn
\* and scale them, and the positions of the stars are left out.
MarkerObjects(first) ==
  (first :> [type |-> "Group", position |-> <<Q(3, 1), Zero, Q(2, 1)>>,
             children |-> {first + 3, first + 6, first + 7, first + 10}])
    @@ (first + 1 :> [type |-> "SphereGeometry", radius |-> Q(8, 100)])
    @@ (first + 2 :> [type |-> "MeshBasicMaterial", color |-> <<0, 255, 255>>])
    @@ (first + 3 :> [type |-> "Mesh", geometry |-> first + 1,
                      material |-> first + 2, position |-> Origin])
    @@ (first + 4 :> [type |-> "RingGeometry"])
    @@ (first + 5 :> [type |-> "MeshBasicMaterial", color |-> <<255, 0, 255>>])
    @@ (first + 6 :> [type |-> "Mesh", geometry |-> first + 4,
                      material |-> first + 5, position |-> Origin])
    @@ (first + 7 :> [type |-> "Mesh", geometry |-> first + 4,
                      material |-> first + 5, position |-> Origin])
    @@ (first + 8 :> [type |-> "BufferGeometry"])
    @@ (first + 9 :> [type |-> "PointsMaterial", size |-> Q(2, 100)])
    @@ (first + 10 :> [type |-> "Points", geometry |-> first + 8,
                       material |-> first + 9, children |-> {}])

\* A call that leaves the previous marker in the scene.
KeepMarker(children, m) == children

\* if (markerMesh) scene.remove(markerMesh)
RemoveMarker(children, m) == IF m # Null THEN children \ {m} ELSE children

\* new THREE.FontLoader() and loader.load(...): the number of loads started,
\* none where the build has no THREE.FontLoader and the call throws.
LoadsStarted == {0, 1}

Generation ==
  <<parameters, galaxyGeometry, galaxyMaterial, galaxyPoints, disposed,
    generated, generatedFrom, outputs, pending, iter>>

\* markYouAreHere(), the handler of the 'Mark "You are here"' button
MarkYouAreHere ==
  /\ generated # <<>>
  /\ location = Galaxy
  /\ marks < MaxMarks
  /\ scene' = RemoveMarker(scene, markerMesh) \cup {nextId + 1}
  /\ markerMesh' = nextId + 1
  /\ heap' = heap @@ MarkerObjects(nextId + 1)
  /\ nextId' = nextId + 11
  /\ \E started \in LoadsStarted : fontLoads' = fontLoads + started
  /\ marks' = marks + 1
  /\ UNCHANGED Generation
  /\ UNCHANGED <<cameraPosition, animations, now, timeouts, location, warnings,
                 transitions>>

\* The objects the callback of the font load creates, from id first on.
TextObjects(first) ==
  (first :> [type |-> "TextGeometry"])
    @@ (first + 1 :> [type |-> "MeshBasicMaterial", color |-> <<255, 255, 255>>])
    @@ (first + 2 :> [type |-> "Mesh", geometry |-> first, material |-> first + 1,
                      position |-> <<Q(2, 10), Q(2, 10), Zero>>])

\* The font has loaded: the callback adds the label to the marker markerMesh
\* names by then.
FontLoaded ==
  /\ fontLoads > 0
  /\ location = Galaxy
  /\ heap' = [heap EXCEPT ![markerMesh].children = @ \cup {nextId + 3}]
               @@ TextObjects(nextId + 1)
  /\ nextId' = nextId + 3
  /\ fontLoads' = fontLoads - 1
  /\ UNCHANGED Generation
  /\ UNCHANGED <<scene, markerMesh, cameraPosition, animations, now, timeouts,
                 location, warnings, marks, transitions>>

\* if (!markerMesh)
HasMarker(m) == m # Null

\* The objects createLightspeedEffect creates, from id first on; the values
\* of the 3000 positions are left out, and the animateStars loop only moves
\* the stars.
LightspeedObjects(first) ==
  (first :> [type |-> "Float32Array"])
    @@ (first + 1 :> [type |-> "BufferGeometry", position |-> first])
    @@ (first + 2 :> [type |-> "PointsMaterial", size |-> Q(5, 100)])
    @@ (first + 3 :> [type |-> "Points", geometry |-> first + 1,
                      material |-> first + 2, children |-> {}])

\* markerMesh.position.clone().add(new THREE.Vector3(0, 0, 0.5))
EndPosition(position) == <<position[1], position[2], Plus(position[3], Half)>>

\* The closure animateCamera of one call: startPosition, endPosition and
\* let startTime = null
NewAnimation(startPosition, endPosition) ==
  [startPosition |-> startPosition, endPosition |-> endPosition,
   startTime |-> Null]

\* transitionToSolarSystem(), the handler of the 'Go to Solar System' button
TransitionToSolarSystem ==
  /\ generated # <<>>
  /\ location = Galaxy
  /\ transitions < MaxTransitions
  /\ transitions' = transitions + 1
  /\ IF ~HasMarker(markerMesh)
       THEN /\ warnings' = warnings + 1
            /\ UNCHANGED <<scene, heap, nextId, animations>>
       ELSE /\ scene' = scene \cup {nextId + 4}
            /\ heap' = heap @@ LightspeedObjects(nextId + 1)
            /\ nextId' = nextId + 4
            /\ animations' = Append(animations,
                 NewAnimation(cameraPosition, EndPosition(heap[markerMesh].position)))
            /\ UNCHANGED warnings
  /\ UNCHANGED Generation
  /\ UNCHANGED <<markerMesh, cameraPosition, now, timeouts, location, fontLoads,
                 marks>>

\* if (!startTime) startTime = currentTime
Started(a, currentTime) ==
  IF a.startTime = Null THEN [a EXCEPT !.startTime = currentTime] ELSE a

\* Math.min(elapsed / duration, 1), elapsed = currentTime - startTime
Progress(a, currentTime) ==
  IF currentTime - a.startTime < Duration
    THEN Q(currentTime - a.startTime, Duration)
    ELSE One

\* Vector3.lerpVectors(v1, v2, alpha)
LerpVectors(v1, v2, alpha) ==
  [k \in 1..3 |-> Plus(v1[k], Times(Minus(v2[k], v1[k]), alpha))]

\* The rest of animateCamera, on a browser whose camera position, queue of
\* callbacks for the next frame and number of timeouts are b: the camera is
\* moved, and the callback is queued again or the redirect is scheduled.
MoveCamera(a, progress, b) ==
  [cameraPosition |-> LerpVectors(a.startPosition, a.endPosition, progress),
   animations |-> IF Less(progress, One) THEN Append(b.animations, a)
                                        ELSE b.animations,
   timeouts |-> IF Less(progress, One) THEN b.timeouts ELSE b.timeouts + 1]

\* animateCamera(currentTime) of the closure a
AnimateCamera(a, currentTime, b) == MoveCamera(a, Progress(a, currentTime), b)

\* One animation frame: the callbacks queue[k], queue[k + 1], ... run in turn.
RECURSIVE RunFrame(_, _, _, _)
RunFrame(queue, currentTime, k, b) ==
  IF k > Len(queue)
    THEN b
    ELSE RunFrame(queue, currentTime, k + 1,
                  AnimateCamera(Started(queue[k], currentTime), currentTime, b))

\* The browser runs an animation frame while animateCamera callbacks are
\* queued.  The render loop of the same frame (animate) and the OrbitControls
\* of a user who is not dragging leave the camera position alone.
AnimationFrame ==
  /\ animations # <<>>
  /\ location = Galaxy
  /\ \E currentTime \in {now + dt : dt \in FrameIntervals} :
     \E b \in {RunFrame(animations, currentTime, 1,
                        [cameraPosition |-> cameraPosition, animations |-> <<>>,
                         timeouts |-> timeouts])} :
       /\ now' = currentTime
       /\ cameraPosition' = b.cameraPosition
       /\ animations' = b.animations
       /\ timeouts' = b.timeouts
  /\ UNCHANGED Generation
  /\ UNCHANGED <<scene, heap, nextId, markerMesh, location, warnings, fontLoads,
                 marks, transitions>>

\* The timeout of a finished animation runs: window.location.href = ...
Redirect ==
  /\ timeouts > 0
  /\ location = Galaxy
  /\ location' = SolarSystem
  /\ timeouts' = timeouts - 1
  /\ UNCHANGED Generation
  /\ UNCHANGED <<scene, heap, nextId, markerMesh, cameraPosition, animations, now,
                 warnings, fontLoads, marks, transitions>>

NextNav ==
  \/ InitialGeneration \/ MarkYouAreHere \/ FontLoaded
  \/ TransitionToSolarSystem \/ AnimationFrame \/ Redirect

SpecNav == Init /\ [][NextNav]_vars

\* ------------------------------------------------------------- properties

\* The objects the most recent call of generateGalaxy created.
Last == generated[Len(generated)]
PositionBuffer == heap[Last.positions]
ColorBuffer == heap[Last.colors]

\* The elements of an array, and those stored into exactly once.
Elements(array) == 1..Len(array.data)
WrittenOnce(array) == {k \in Elements(array) : array.writes[k] = 1}

\* C1: after a call of generateGalaxy on any count >= 0, the position buffer
\* and the colour buffer both hold 3 * count components, the three components
\* of every entry i < count were stored exactly once in each buffer, and with
\* count = 0 both buffers are empty.
C1_BuffersHoldCountEntries ==
  generated # <<>> =>
    /\ Len(PositionBuffer.data) = 3 * generatedFrom.count
    /\ Len(ColorBuffer.data) = 3 * generatedFrom.count
    /\ WrittenOnce(PositionBuffer) = Elements(PositionBuffer)
    /\ WrittenOnce(ColorBuffer) = Elements(ColorBuffer)
    /\ \A i \in 0 .. generatedFrom.count - 1 : \A c \in 1..3 :
         /\ PositionBuffer.writes[3 * i + c] = 1
         /\ ColorBuffer.writes[3 * i + c] = 1
    /\ generatedFrom.count = 0 => PositionBuffer.data = <<>> /\ ColorBuffer.data = <<>>

\* A call has filled buffers of more than one entry, after an earlier call.
C1_Witness ==
  /\ Len(generated) > 1
  /\ generatedFrom.count > 1
  /\ Len(PositionBuffer.data) = 3 * generatedFrom.count
  /\ PositionBuffer.data[4] # Zero

\* The calls before the most recent one.
Earlier == 1 .. Len(generated) - 1

\* The ids of the geometry, buffers, material and points object of call k.
Built(k) ==
  {generated[k].positions, generated[k].colors, generated[k].geometry,
   generated[k].material, generated[k].points}

\* The galaxy points objects among the children of the scene.
GalaxiesInScene == {id \in scene : \E k \in 1..Len(generated) : generated[k].points = id}

\* C2: after any number of calls of generateGalaxy the scene holds exactly one
\* galaxy points object, the one the most recent call built on a geometry,
\* material and pair of buffers no earlier call created; the geometry and the
\* material of every earlier call were disposed and its points object is not
\* in the scene.
C2_OneFreshGalaxy ==
  generated # <<>> =>
    /\ GalaxiesInScene = {Last.points}
    /\ galaxyPoints = Last.points
    /\ galaxyGeometry = Last.geometry
    /\ galaxyMaterial = Last.material
    /\ heap[Last.points].geometry = Last.geometry
    /\ heap[Last.points].material = Last.material
    /\ heap[Last.geometry].position = Last.positions
    /\ heap[Last.geometry].color = Last.colors
    /\ Built(Len(generated)) \cap disposed = {}
    /\ \A k \in Earlier :
         /\ Built(k) \cap Built(Len(generated)) = {}
         /\ generated[k].geometry \in disposed
         /\ generated[k].material \in disposed
         /\ generated[k].points \notin scene

\* The galaxy was regenerated twice after the initial generation.
C2_Witness ==
  /\ Len(generated) = 3
  /\ generated[1].points \notin scene
  /\ generated[2].geometry \in disposed
  /\ generated[3].points \in scene

\* C3: once the initial generation has run and no change of a control is left
\* unfinished, the most recent call of generateGalaxy read the parameters as
\* they are now, and the displayed galaxy has their size, count and black hole.
C3_GeneratedFromCurrentParameters ==
  (generated # <<>> /\ pending = NoControl) =>
    /\ generatedFrom = parameters
    /\ heap[galaxyMaterial].size = parameters.size
    /\ Len(heap[heap[galaxyGeometry].position].data) = 3 * parameters.count
    /\ (heap[galaxyPoints].children # {}) = parameters.centralBlackHole
    /\ \A m \in heap[galaxyPoints].children :
         heap[heap[m].geometry].radius = Times(parameters.coreSize, Q(1, 20))

\* A slider change and a checkbox click have both been finished.
C3_Witness ==
  /\ Len(generated) = 3
  /\ pending = NoControl
  /\ parameters.coreSize # Defaults.coreSize
  /\ parameters.halo # Defaults.halo
  /\ generatedFrom = parameters

\* The objects drawn with the scene: its children and their children.
Displayed ==
  scene \cup UNION {heap[id].children : id \in {c \in scene : heap[c].type = "Points"}}

\* C10: after any number of calls of generateGalaxy, the displayed galaxy has
\* exactly one child, a sphere of radius coreSize * 0.05 at its origin, if
\* centralBlackHole was true at the most recent call, and no child if it was
\* false; no black hole of an earlier call is displayed, and the buffers hold
\* 3 * count components either way.
C10_OneBlackHoleOrNone ==
  generated # <<>> =>
    /\ generatedFrom.centralBlackHole =>
         \E m \in heap[galaxyPoints].children :
           /\ heap[galaxyPoints].children = {m}
           /\ heap[m].type = "Mesh"
           /\ heap[m].position = <<Zero, Zero, Zero>>
           /\ heap[heap[m].geometry].type = "SphereGeometry"
           /\ heap[heap[m].geometry].radius = Times(generatedFrom.coreSize, Q(1, 20))
    /\ ~generatedFrom.centralBlackHole => heap[galaxyPoints].children = {}
    /\ \A k \in Earlier : generated[k].blackHole \cap Displayed = {}
    /\ Len(PositionBuffer.data) = 3 * generatedFrom.count
    /\ Len(ColorBuffer.data) = 3 * generatedFrom.count

\* The black hole was on, then off, then on again.
C10_Witness ==
  /\ Len(generated) = 3
  /\ generated[1].blackHole # {}
  /\ generated[2].blackHole = {}
  /\ generated[3].blackHole # {}
  /\ heap[galaxyPoints].children = generated[3].blackHole

\* The point a record of locals holds, and the square of its distance from
\* the origin, in space and in the XZ plane.
Pos(l) == [x |-> l.x, y |-> l.y, z |-> l.z]
DistSq(pt) == Plus(Plus(Square(pt.x), Square(pt.y)), Square(pt.z))
PlaneDistSq(pt) == Plus(Square(pt.x), Square(pt.z))

\* The radius the iteration drew, and the angle cos and sin are taken of:
\* ((i mod branches) / branches) * 2 * pi + radius * spin, in turns.
DrawnRadius == Times(iter.uRadius, parameters.radius)
ArmAngle ==
  Plus(Q(iter.i % parameters.branches, parameters.branches),
       Times(DrawnRadius, parameters.spin))

PlainSpiral ==
  /\ parameters.shape = "spiral"
  /\ parameters.randomness = Zero
  /\ ~parameters.bulge
  /\ ~parameters.halo
  /\ parameters.armWidth = Zero

\* C4: with shape = spiral, randomness = 0, bulge = false, halo = false and
\* armWidth = 0, the position an iteration stores is
\* (cos(a) * radius, 0, sin(a) * radius) for its drawn radius, which is in
\* [0, R], and a = ((i mod branches) / branches) * 2 * pi + radius * spin; its
\* distance from the origin in the XZ plane is radius.
C4_SpiralPlacement ==
  (iter.stage = "stored" /\ PlainSpiral) =>
    /\ iter.stored.position =
         <<Times(Cos(ArmAngle), DrawnRadius), Zero, Times(Sin(ArmAngle), DrawnRadius)>>
    /\ Plus(Square(iter.stored.position[1]), Square(iter.stored.position[3]))
         = Square(DrawnRadius)
    /\ LessEq(Zero, DrawnRadius)
    /\ LessEq(DrawnRadius, parameters.radius)

\* A plain spiral stored a particle of the second of two branches, spun
\* backwards onto the positive x axis.
C4_Witness ==
  /\ iter.stage = "stored"
  /\ PlainSpiral
  /\ iter.i = 1
  /\ parameters.branches = 2
  /\ parameters.spin = <<-1, 4>>
  /\ iter.stored.position = <<DrawnRadius, Zero, Zero>>
  /\ DrawnRadius # Zero

\* The position after the bulge and halo blocks is the halo's point if the
\* halo block ran, else the bulge's point if the bulge block ran.
C5_Relocated ==
  iter.stage = "haloed" =>
    /\ iter.haloFired => Pos(iter.l) = iter.haloPoint
    /\ (~iter.haloFired /\ iter.bulgeFired) => Pos(iter.l) = iter.bulgePoint

\* A block that does not run leaves the position as it was, and the position
\* after the halo block is the one the randomness is added to.
C5_Kept ==
  /\ (iter.stage = "jittered" /\ ~iter'.bulgeFired) => iter'.l = iter.l
  /\ (iter.stage = "bulged" /\ ~iter'.haloFired) => iter'.l = iter.l
  /\ iter.stage = "haloed" => iter'.carried = Pos(iter.l)

\* C5: the halo block runs after the bulge block: when both run, x, y and z
\* carried into the randomness are the halo's; when one runs, they are that
\* block's; when neither runs, they are the arm position.
C5_HaloOverridesBulge == []C5_Relocated /\ [][C5_Kept]_vars

\* Both blocks ran, on different points, and the halo's was kept.
C5_Witness ==
  /\ iter.stage = "haloed"
  /\ iter.bulgeFired
  /\ iter.haloFired
  /\ iter.haloPoint # iter.bulgePoint
  /\ iter.bulgePoint.y # Zero
  /\ Pos(iter.l) = iter.haloPoint

\* The bounds the relocated points are held to: 0.2 * R and 1.5 * R.
BulgeBound == Times(Q(2, 10), parameters.radius)
HaloBound == Times(Q(15, 10), parameters.radius)

\* C6, as stated: a point the bulge block assigns is at distance at most
\* 0.2 * R from the origin, and a point the halo block assigns at most 1.5 * R.
C6_WithinRadiusBounds ==
  /\ iter.bulgeFired => LessEq(DistSq(iter.bulgePoint), Square(BulgeBound))
  /\ iter.haloFired => LessEq(DistSq(iter.haloPoint), Square(HaloBound))

\* C6: a point the bulge block assigns is at distance at most 0.2 * R from
\* the y axis and at most 0.05 * R from the XZ plane, so at most
\* sqrt(17)/4 * 0.2 * R from the origin; a point the halo block assigns is at
\* distance at most 1.5 * R from the origin.
C6_WithinFlattenedBounds ==
  /\ iter.bulgeFired =>
       /\ LessEq(PlaneDistSq(iter.bulgePoint), Square(BulgeBound))
       /\ LessEq(Abs(iter.bulgePoint.y), Times(Q(1, 4), BulgeBound))
       /\ LessEq(DistSq(iter.bulgePoint), Times(Q(17, 16), Square(BulgeBound)))
  /\ iter.haloFired => LessEq(DistSq(iter.haloPoint), Square(HaloBound))

\* The bulge block assigned a point further than 0.2 * R from the origin
\* and the halo block then assigned another.
C6_Witness ==
  /\ iter.stage = "haloed"
  /\ iter.bulgeFired
  /\ Less(Square(BulgeBound), DistSq(iter.bulgePoint))
  /\ iter.haloFired
  /\ DistSq(iter.haloPoint) # Zero

\* The three offsets of the iteration, and the largest the drawn radius allows.
Offsets == {iter.randomX, iter.randomY, iter.randomZ}
OffsetBound == Times(parameters.randomness, DrawnRadius)

\* C7: on each axis the stored position is the carried position plus an
\* offset of absolute value at most randomness * radius, radius being the
\* radius the iteration drew; with randomness = 0 the three offsets are 0.
C7_OffsetsWithinRandomness ==
  iter.stage = "stored" =>
    /\ iter.stored.position[1] = Plus(iter.carried.x, iter.randomX)
    /\ iter.stored.position[2] = Plus(iter.carried.y, iter.randomY)
    /\ iter.stored.position[3] = Plus(iter.carried.z, iter.randomZ)
    /\ \A d \in Offsets : LessEq(Abs(d), OffsetBound)
    /\ parameters.randomness = Zero => Offsets = {Zero}

\* At the largest randomness and power 1, a position was moved forwards on
\* x, backwards on z and not at all on y.
C7_Witness ==
  /\ iter.stage = "stored"
  /\ parameters.randomness = <<2, 1>>
  /\ parameters.randomnessPower = 1
  /\ Less(Zero, iter.randomX)
  /\ iter.randomY = Zero
  /\ Less(iter.randomZ, Zero)
  /\ iter.stored.position[1] # iter.carried.x

\* Component k of insideColor interpolated toward outsideColor at
\* t = radius / R.
Interpolated(k) ==
  Plus(Q(parameters.insideColor[k], 255),
       Times(Q(parameters.outsideColor[k] - parameters.insideColor[k], 255),
             Over(DrawnRadius, parameters.radius)))

\* C8: each component of the colour an iteration stores is at most that of
\* insideColor interpolated toward outsideColor at t = radius / R, and equal
\* to it when dustLanes is false.
C8_DustNeverBrightens ==
  iter.stage = "stored" =>
    \A k \in 1..3 :
      /\ LessEq(iter.stored.color[k], Interpolated(k))
      /\ ~parameters.dustLanes => iter.stored.color[k] = Interpolated(k)
      /\ iter.lerped[k] = Interpolated(k)

\* With dust lanes, a colour darker than the interpolated one was stored.
C8_Witness ==
  /\ iter.stage = "stored"
  /\ parameters.dustLanes
  /\ \A k \in 1..3 : Less(iter.stored.color[k], Interpolated(k))

\* The base placement of the iteration had spin and branches been different.
PlacedUnder(sp, b) ==
  Pos(BasePlacement([parameters EXCEPT !.spin = sp, !.branches = b],
                    iter.i, iter.uRadius))

\* C9, as stated: when shape is elliptical, the base placement is the same,
\* on the same draws, whatever spin and branches are.
C9_EllipticalIgnoresSpinAndBranches ==
  (iter.stage = "placed" /\ parameters.shape = "elliptical") =>
    \A sp \in {Zero, <<1, 4>>, <<-1, 4>>}, b \in {2, 4} :
      PlacedUnder(sp, b) = Pos(iter.l)

\* C11: two calls of generateGalaxy that read the same parameters and drew
\* the same values left the same components in their position buffers and in
\* their colour buffers, whatever was generated before each of them.
C11_SameDrawsSameBuffers ==
  \A j, k \in 1..Len(outputs) :
    (outputs[j].parameters = outputs[k].parameters
       /\ outputs[j].draws = outputs[k].draws) =>
      /\ outputs[j].positions = outputs[k].positions
      /\ outputs[j].colors = outputs[k].colors

\* The first and third call read the same parameters and drew the same
\* values, with a galaxy of other parameters generated in between.
C11_Witness ==
  /\ Len(outputs) = 3
  /\ outputs[1].parameters = outputs[3].parameters
  /\ outputs[1].draws = outputs[3].draws
  /\ outputs[2].parameters # outputs[1].parameters
  /\ outputs[2].positions # outputs[1].positions
  /\ outputs[3].positions = outputs[1].positions
  /\ outputs[3].colors = outputs[1].colors
  /\ \E c \in 1..Len(outputs[3].positions) : outputs[3].positions[c] # Zero

\* Every call so far read the parameters as they are now.
C12_ReadAsTheyAre == \A k \in 1..Len(outputs) : outputs[k].parameters = parameters

\* A call leaves the parameters as it read them.
C12_CallKeeps ==
  Len(generated') > Len(generated) =>
    /\ parameters' = parameters
    /\ generatedFrom' = parameters

\* C12: a call of generateGalaxy leaves every field of the parameters object
\* as it was, for every parameters object and all draws.
C12_ParametersUntouched == []C12_ReadAsTheyAre /\ [][C12_CallKeeps]_vars

\* Calls were made on parameters that differ from the defaults, and the
\* parameters are still the ones the first call read.
C12_Witness ==
  /\ Len(outputs) = 3
  /\ parameters # Defaults
  /\ parameters.count > 0
  /\ outputs[1].parameters = parameters
  /\ generatedFrom = parameters

\* The factor the colour of the iteration is multiplied by under dust lanes.
DustFactor == Minus(One, Times(DustLane(parameters, iter.l), Q(3, 10)))

\* C13: with dustLanes true, branchAngle * branches is a whole number of
\* turns, the dust lane value is 0.5 and the stored colour is 0.85 times the
\* interpolated colour, whatever the index, the arm and the radius of the
\* particle; the factor is within [0.7, 1].
C13_DustFactorIsConstant ==
  (iter.stage = "stored" /\ parameters.dustLanes) =>
    /\ Times(iter.l.branchAngle, Q(parameters.branches, 1))
         = Q(iter.i % parameters.branches, 1)
    /\ DustLane(parameters, iter.l) = Half
    /\ DustFactor = Q(85, 100)
    /\ LessEq(Q(7, 10), DustFactor) /\ LessEq(DustFactor, One)
    /\ \A k \in 1..3 : iter.stored.color[k] = Times(Interpolated(k), Q(85, 100))

\* Under dust lanes a particle of another arm than the first, away from the
\* centre, was stored with a colour that is not black.
C13_Witness ==
  /\ iter.stage = "stored"
  /\ parameters.dustLanes
  /\ iter.i % parameters.branches # 0
  /\ iter.l.branchAngle # Zero
  /\ DrawnRadius # Zero
  /\ iter.stored.color[1] = Times(Interpolated(1), Q(85, 100))
  /\ iter.stored.color[1] # Zero

\* The marker groups and the lightspeed stars among the children of the scene.
MarkersInScene == {id \in scene : heap[id].type = "Group"}
StarsInScene == {id \in scene : heap[id].type = "Points"} \ GalaxiesInScene

\* A call of transitionToSolarSystem without a marker logs one warning and
\* changes nothing else.
C14_WarnsOnly ==
  (transitions' = transitions + 1 /\ markerMesh = Null) =>
    /\ warnings' = warnings + 1
    /\ cameraPosition' = cameraPosition
    /\ scene' = scene
    /\ heap' = heap
    /\ animations' = animations
    /\ timeouts' = timeouts
    /\ location' = location
    /\ markerMesh' = Null

\* Lightspeed stars, a camera animation, a scheduled redirect and the
\* redirect itself all come after a call of markYouAreHere.
C14_MarkedFirst ==
  (StarsInScene # {} \/ animations # <<>> \/ timeouts > 0 \/ location = SolarSystem) =>
    /\ marks >= 1
    /\ markerMesh # Null

\* The scene holds no marker group before the first call of markYouAreHere
\* and exactly the latest one after it.
C14_OneMarker == MarkersInScene = (IF marks = 0 THEN {} ELSE {markerMesh})

\* C14: transitionToSolarSystem called while there is no marker only logs a
\* warning: the camera position, the scene, the queued animation frames and
\* the scheduled redirects stay as they were; so a redirect is preceded by a
\* call of markYouAreHere, and after any number of calls of markYouAreHere
\* the scene holds at most one marker group.
C14_NoTransitionWithoutMarker ==
  [](C14_MarkedFirst /\ C14_OneMarker) /\ [][C14_WarnsOnly]_vars

\* A transition without a marker was refused; then, after two calls of
\* markYouAreHere, another moved the camera to the marker and redirected.
C14_Witness ==
  /\ warnings = 1
  /\ marks = 2
  /\ transitions = 2
  /\ location = SolarSystem
  /\ cameraPosition = <<Q(3, 1), Zero, Q(5, 2)>>
  /\ Cardinality(MarkersInScene) = 1
  /\ Cardinality(StarsInScene) = 1

====
